---- MODULE Spec2Model ----
(***************************************************************************)
(* Model of compression-images-kmeans: src/src/image_compressor.py (the    *)
(* colour-quantisation pipeline) and src/src/main.py (the command          *)
(* surface).                                                               *)
(*                                                                         *)
(* An image is a record [shape, data]: the numpy shape (<<H, W>> for a     *)
(* grayscale array, <<H, W, C>> otherwise) and the row-major flat buffer.  *)
(* A centroid is kept exact, as [s |-> channel sums, w |-> weight], the    *)
(* rational vector s / w; distances are compared by cross-multiplication. *)
(* KMeans(...).fit is the scikit-learn estimator the code calls on line    *)
(* 56-57: k-means++ seeding, Lloyd iterations capped at max_iter, the best *)
(* of n_init runs.                                                         *)
(***************************************************************************)
EXTENDS Integers, Sequences, FiniteSets, TLC

\* ---------------------------------------------------------------- bounds
MaxH == 1
MaxW == 3
\* largest flat buffer given directly to compress_image_kmeans
MaxElems == 9
\* largest flat buffer of an image decoded from the input file
MaxFileElems == 6
MaxK == 3
MaxLevels == 2

\* ------------------------------------------------------ program constants
\* KMeans(n_clusters=n_colors, random_state=42, n_init=10); max_iter is the
\* estimator's default.
NInit == 10
MaxIter == 300
\* parser.add_argument('-c', '--colors', type=int, default=16)
DefaultColors == 16

AnalysisLevels == <<4, 8, 16, 32, 64, 128>>

Unset == "unset"
NoError == "none"

\* Python's None where an array is expected, and the contents of an input path
\* that cannot be decoded
NoneArray == [shape |-> <<>>, data |-> <<>>]
Missing == [kind |-> "missing", shape |-> <<>>, data |-> <<>>]
Corrupt == [kind |-> "corrupt", shape |-> <<>>, data |-> <<>>]

\* values a pipeline function hands back: nothing yet, None, an image, results
NotReturned == [kind |-> "unset", value |-> <<>>]
ReturnedNone == [kind |-> "None", value |-> <<>>]
ReturnedImage(im) == [kind |-> "image", value |-> im]
ReturnedResults(rs) == [kind |-> "results", value |-> rs]

\* The modelled 8-bit buffers are runs of these colours (black, red, green),
\* cut to the length the shape asks for.
Palette == {<<0, 0, 0>>, <<255, 0, 0>>, <<0, 255, 0>>}
\* PIL modes L (2-D array), RGB, RGBA
ChannelCounts == {1, 3, 4}

\* ------------------------------------------------------------ array helpers
RECURSIVE Product(_)
Product(s) ==
    IF s = <<>> THEN 1 ELSE Head(s) * Product(Tail(s))

ShapeOf(h, w, c) ==
    IF c = 1 THEN <<h, w>> ELSE <<h, w, c>>

\* load_image line 25: img_array.shape[2] if len(img_array.shape) == 3 else 1
Channels(shape) ==
    IF Len(shape) = 3 THEN shape[3] ELSE 1

Shapes(maxElems) ==
    { ShapeOf(h, w, c) : <<h, w, c>> \in
        { t \in (1..MaxH) \X (1..MaxW) \X ChannelCounts :
            t[1] * t[2] * t[3] <= maxElems } }

Buffers(n) ==
    { [e \in 1..n |-> cs[((e - 1) \div 3) + 1][((e - 1) % 3) + 1]] :
        cs \in [1..((n + 2) \div 3) -> Palette] }

ImagesOf(maxElems) ==
    UNION { { [shape |-> sh, data |-> d] : d \in Buffers(Product(sh)) } :
            sh \in Shapes(maxElems) }

\* The pixel of an image at flat position i (0-based), a Channels-long vector.
PixelAt(im, i) ==
    LET c == Channels(im.shape)
    IN  [j \in 1..c |-> im.data[i * c + j]]

NumPixels(im) ==
    im.shape[1] * im.shape[2]

\* Distinct colours of an image, one colour per pixel of its own geometry.
ImageColors(im) ==
    { PixelAt(im, i) : i \in 0..(NumPixels(im) - 1) }

\* img_array.reshape(-1, 3): numpy raises ValueError unless the buffer length
\* is a multiple of 3; row i of the result is elements 3i .. 3i+2.
ReshapeOk(data) ==
    Len(data) % 3 = 0

ReshapeRows3(data) ==
    [i \in 1..(Len(data) \div 3) |->
        <<data[3 * i - 2], data[3 * i - 1], data[3 * i]>>]

\* len(np.unique(x.reshape(-1, 3), axis=0))
UniqueRows3(data) ==
    Cardinality({ ReshapeRows3(data)[i] : i \in 1..(Len(data) \div 3) })

\* ------------------------------------------------------------- k-means core
Sq(x) ==
    x * x

\* |w*x - s|^2 : the squared distance of x to centroid c, times c.w^2
Dist2Num(x, c) ==
    Sq(c.w * x[1] - c.s[1]) + Sq(c.w * x[2] - c.s[2]) + Sq(c.w * x[3] - c.s[3])

\* dist(x, c1) < dist(x, c2)
Closer(x, c1, c2) ==
    Dist2Num(x, c1) * Sq(c2.w) < Dist2Num(x, c2) * Sq(c1.w)

SameCenter(c1, c2) ==
    \A j \in 1..3 : c1.s[j] * c2.w = c2.s[j] * c1.w

\* argmin over the centroids, the lowest index winning a tie; 0-based label
Nearest(x, centers) ==
    (CHOOSE j \in 1..Len(centers) :
        /\ \A m \in 1..Len(centers) : ~Closer(x, centers[m], centers[j])
        /\ \A m \in 1..(j - 1) : Closer(x, centers[j], centers[m])) - 1

\* E-step: labels of all samples
EStep(X, centers) ==
    [i \in 1..Len(X) |-> Nearest(X[i], centers)]

AddVec(a, b) ==
    <<a[1] + b[1], a[2] + b[2], a[3] + b[3]>>

SubVec(a, b) ==
    <<a[1] - b[1], a[2] - b[2], a[3] - b[3]>>

RECURSIVE SumOver(_, _)
SumOver(X, idx) ==
    IF idx = {} THEN <<0, 0, 0>>
    ELSE LET i == CHOOSE i \in idx : TRUE
         IN  AddVec(X[i], SumOver(X, idx \ {i}))

Members(labels, j) ==
    { i \in DOMAIN labels : labels[i] = j }

\* sample a lies farther from its own centroid than sample b (ties: the later
\* sample first), the order in which empty clusters take over samples
Farther(X, centers, labels, a, b) ==
    LET ca == centers[labels[a] + 1]
        cb == centers[labels[b] + 1]
        da == Dist2Num(X[a], ca) * Sq(cb.w)
        db == Dist2Num(X[b], cb) * Sq(ca.w)
    IN  da > db \/ (da = db /\ a > b)

\* the sample with exactly r - 1 samples farther than it
FarFromCenters(X, centers, labels, r) ==
    CHOOSE a \in 1..Len(X) :
        Cardinality({ b \in 1..Len(X) : b # a /\ Farther(X, centers, labels, b, a) }) = r - 1

\* the empty cluster new takes sample far, which leaves the cluster it was
\* assigned to
TakeOver(X, labels, acc, new, far) ==
    [sums |-> [acc.sums EXCEPT ![labels[far] + 1] = SubVec(@, X[far]), ![new] = X[far]],
     wts |-> [acc.wts EXCEPT ![labels[far] + 1] = @ - 1, ![new] = 1]]

\* _relocate_empty_clusters: the idx-th empty cluster takes the idx-th farthest
\* sample
RECURSIVE Relocate(_, _, _, _, _, _)
Relocate(X, centers, labels, acc, empties, idx) ==
    IF idx > Len(empties) THEN acc
    ELSE CHOOSE r \in
            { Relocate(X, centers, labels, next, empties, idx + 1) : next \in
                { TakeOver(X, labels, acc, empties[idx], far) : far \in
                    { FarFromCenters(X, centers, labels, idx) } } } : TRUE

RECURSIVE SortedSeq(_)
SortedSeq(S) ==
    IF S = {} THEN <<>>
    ELSE LET m == CHOOSE m \in S : \A x \in S : m <= x
         IN  <<m>> \o SortedSeq(S \ {m})

\* per-cluster sums and weights of the assigned samples
ClusterSums(X, k, labels) ==
    [sums |-> [j \in 1..k |-> SumOver(X, Members(labels, j - 1))],
     wts |-> [j \in 1..k |-> Cardinality(Members(labels, j - 1))]]

EmptyClusters(acc) ==
    SortedSeq({ j \in DOMAIN acc.wts : acc.wts[j] = 0 })

\* _average_centers.  A cluster left with weight 0 keeps its (zero,
\* mean-centred) sum: it sits on the mean of the data.
AverageCenters(X, acc) ==
    [j \in DOMAIN acc.wts |->
        IF acc.wts[j] > 0 THEN [s |-> acc.sums[j], w |-> acc.wts[j]]
        ELSE [s |-> SumOver(X, DOMAIN X), w |-> Len(X)]]

\* M-step: the sums and weights, the relocation of the empty clusters, then
\* the average
MStep(X, centers, labels) ==
    CHOOSE new \in
        { AverageCenters(X, acc) : acc \in
            UNION { { Relocate(X, centers, labels, raw, empties, 1) : empties \in
                        { EmptyClusters(raw) } } : raw \in
                    { ClusterSums(X, Len(centers), labels) } } } : TRUE

\* center_shift_tot <= tol.  tol is 1e-4 times the mean channel variance; the
\* squared shift between two distinct centroids of at most Len(X) 8-bit samples
\* is far above it, so the test passes exactly when no centroid moved.
ShiftWithinTol(old, new) ==
    \A j \in 1..Len(old) : SameCenter(old[j], new[j])

RECURSIVE LcmUpTo(_)
LcmUpTo(n) ==
    IF n <= 1 THEN 1
    ELSE LET l == LcmUpTo(n - 1)
             g == CHOOSE d \in 1..n : /\ l % d = 0 /\ n % d = 0
                                      /\ \A e \in 1..n : (l % e = 0 /\ n % e = 0) => e <= d
         IN  (l \div g) * n

RECURSIVE SumInts(_, _)
SumInts(f, idx) ==
    IF idx = {} THEN 0
    ELSE LET i == CHOOSE i \in idx : TRUE
         IN  f[i] + SumInts(f, idx \ {i})

\* _inertia: the sum of squared distances of the samples to their centroids,
\* times LcmUpTo(Len(X))^2 (every weight divides that).
Inertia(X, centers, labels) ==
    LET L == LcmUpTo(Len(X))
        d == [i \in 1..Len(X) |->
                LET c == centers[labels[i] + 1]
                IN  Dist2Num(X[i], c) * Sq(L \div c.w)]
    IN  SumInts(d, 1..Len(X))

\* _is_same_clustering: equal up to a renaming of the labels
IsSameClustering(l1, l2) ==
    \A a, b \in DOMAIN l1 : (l1[a] = l1[b]) <=> (l2[a] = l2[b])

\* k-means++: the first centre is any sample; each later one is drawn with
\* probability proportional to the squared distance to the nearest centre so
\* far, so a sample at distance 0 is never drawn while another is farther; with
\* zero potential every candidate resolves to the first sample.
PlusPlusCandidates(X, chosen) ==
    IF chosen = <<>> THEN 1..Len(X)
    ELSE LET pos == { i \in 1..Len(X) : \A m \in 1..Len(chosen) : X[i] # X[chosen[m]] }
         IN  IF pos = {} THEN {1} ELSE pos

RECURSIVE PlusPlusDraws(_, _, _)
PlusPlusDraws(X, k, chosen) ==
    IF Len(chosen) = k THEN {chosen}
    ELSE UNION { PlusPlusDraws(X, k, Append(chosen, i)) : i \in PlusPlusCandidates(X, chosen) }

InitCentroids(X, draw) ==
    [j \in 1..Len(draw) |-> [s |-> X[draw[j]], w |-> 1]]

\* astype(np.uint8) of a centroid channel: truncation of s / w
CenterColor(c) ==
    <<c.s[1] \div c.w, c.s[2] \div c.w, c.s[3] \div c.w>>

\* kmeans.cluster_centers_[kmeans.labels_] ... .reshape(original_shape).astype(np.uint8)
ReshapeBackRows(original_shape, flat) ==
    [shape |-> <<Len(flat) \div 3, 3>>, data |-> flat]

FlatColors(centers, labels) ==
    [e \in 1..(3 * Len(labels)) |->
        CenterColor(centers[labels[((e - 1) \div 3) + 1] + 1])[((e - 1) % 3) + 1]]

ReshapeBack(original_shape, flat) ==
    [shape |-> original_shape, data |-> flat]

\* -------------------------------------------------------------------- state
VARIABLES
    entry,        \* the function the caller invoked
    inputFile,    \* what lies at the input path: "missing", "corrupt" or an image
    argAnalysis,  \* main: args.analysis
    argColors,    \* main: args.colors; compress_image_file: n_colors
    levels,       \* compress_with_multiple_levels: levels
    pc,           \* position of the program
    caller,       \* which function called compress_image_kmeans
    img_array,    \* the decoded array (None before loading)
    n_colors,     \* compress_image_kmeans: n_colors
    li,           \* position of the for loop in levels (1-based)
    results,      \* compress_with_multiple_levels: results
    pixels,       \* img_array.reshape(-1, 3)
    km,           \* <<state of KMeans.fit>> (<<>> before the first fit)
    out,          \* <<compressed_img>> (<<>> before the first reconstruction)
    writes,       \* the files save_image has written, in order
    dirs,         \* the directories os.makedirs has created
    raised,       \* the exception that left the entry function
    returned,     \* what the pipeline function returned to its caller
    exit_status,  \* main: the status of the process
    report,       \* generate_full_report was invoked
    loads,        \* number of load_image calls
    fits,         \* number of KMeans.fit calls
    failedAt      \* value of li when the exception was raised

vars ==
    <<entry, inputFile, argAnalysis, argColors, levels, pc, caller, img_array,
      n_colors, li, results, pixels, km, out, writes, dirs, raised, returned,
      exit_status, report, loads, fits, failedAt>>

Terminal == {"returned", "raised", "exited"}

LevelSeqs ==
    UNION { [1..n -> 1..MaxK] : n \in 0..MaxLevels }

InputFiles ==
    {Missing, Corrupt} \cup
    { [kind |-> "image", shape |-> im.shape, data |-> im.data] : im \in ImagesOf(MaxFileElems) }

InitCommon ==
    /\ caller = Unset
    /\ li = 0
    /\ results = <<>>
    /\ pixels = <<>>
    /\ km = <<>>
    /\ out = <<>>
    /\ writes = <<>>
    /\ dirs = {}
    /\ raised = NoError
    /\ returned = NotReturned
    /\ exit_status = -1
    /\ report = FALSE
    /\ loads = 0
    /\ fits = 0
    /\ failedAt = 0

\* compress_image_kmeans(img_array, n_colors) on an array already in memory
InitKMeans ==
    /\ entry = "compress_image_kmeans"
    /\ pc = "compress_image_kmeans"
    /\ inputFile = Missing
    /\ argAnalysis = FALSE
    /\ argColors = 0
    /\ levels = <<>>
    /\ img_array \in ImagesOf(MaxElems)
    /\ n_colors \in 0..MaxK

\* python main.py input [-c colors] [-a]
InitMain ==
    /\ entry = "main"
    /\ pc = "main"
    /\ inputFile \in InputFiles
    /\ argAnalysis \in BOOLEAN
    /\ argColors \in (IF argAnalysis THEN {DefaultColors} ELSE (0..MaxK) \cup {DefaultColors})
    /\ levels = <<>>
    /\ img_array = NoneArray
    /\ n_colors = 0

\* compress_image_file(input_path, output_path, n_colors)
InitFile ==
    /\ entry = "compress_image_file"
    /\ pc = "compress_image_file"
    /\ inputFile \in InputFiles
    /\ argAnalysis = FALSE
    /\ argColors \in 0..MaxK
    /\ levels = <<>>
    /\ img_array = NoneArray
    /\ n_colors = 0

\* compress_with_multiple_levels(input_path, output_dir, levels)
InitLevels ==
    /\ entry = "compress_with_multiple_levels"
    /\ pc = "compress_with_multiple_levels"
    /\ inputFile \in InputFiles
    /\ argAnalysis = FALSE
    /\ argColors = 0
    /\ levels \in LevelSeqs
    /\ img_array = NoneArray
    /\ n_colors = 0

Init ==
    /\ InitCommon
    /\ (InitKMeans \/ InitMain \/ InitFile \/ InitLevels)

\* -------------------------------------------------------------- exceptions
\* The loop of compress_with_multiple_levels has no try/except: an exception of
\* a level leaves the function.
LevelFailureSkips ==
    "skip"

LevelFailurePolicy ==
    "propagate"

\* An exception raised at the current position.  Nothing on the call stack
\* catches it; under main the interpreter ends the process with status 1.
Raise(exc) ==
    IF caller = "levels" /\ LevelFailurePolicy = "skip"
    THEN /\ li' = li + 1
         /\ pc' = "for_levels"
         /\ UNCHANGED <<raised, failedAt, exit_status>>
    ELSE /\ raised' = exc
         /\ failedAt' = li
         /\ pc' = "raised"
         /\ exit_status' = IF entry = "main" THEN 1 ELSE exit_status
         /\ UNCHANGED li

\* where a pipeline function returns to
ReturnTo ==
    IF entry = "main"
    THEN (IF argAnalysis THEN "analysis_return" ELSE "main_return")
    ELSE "returned"

\* ---------------------------------------------------------------- main.py
\* os.path.exists(args.input)
PathExistsAlways(f) ==
    TRUE

PathExists(f) ==
    f.kind # "missing"

\* main(): the existence check, then the dispatch on args.analysis
\* (compress_single_image only builds the output path and calls
\* compress_image_file).
Main ==
    /\ pc = "main"
    /\ IF ~PathExists(inputFile)
       THEN /\ exit_status' = 1
            /\ pc' = "exited"
       ELSE /\ pc' = IF argAnalysis THEN "compress_with_analysis" ELSE "compress_image_file"
            /\ UNCHANGED exit_status
    /\ UNCHANGED <<entry, inputFile, argAnalysis, argColors, levels, caller, img_array,
                   n_colors, li, results, pixels, km, out, writes, dirs, raised,
                   returned, report, loads, fits, failedAt>>

\* The two os.makedirs calls of compress_with_analysis (lines 42-43): the
\* first may fail, the second may fail after the first has created output_dir,
\* or both directories exist afterwards.
MakeDirsOutcomes ==
    {"output_dir_failed", "comparison_dir_failed", "created"}

DirsAfterMakeDirs(o) ==
    CASE o = "output_dir_failed" -> dirs
      [] o = "comparison_dir_failed" -> dirs \cup {"output_dir"}
      [] o = "created" -> dirs \cup {"output_dir", "comparison_dir"}

\* compress_with_analysis, up to its call of compress_with_multiple_levels;
\* an OSError of os.makedirs is caught nowhere and ends the process
CompressWithAnalysis ==
    /\ pc = "compress_with_analysis"
    /\ levels' = AnalysisLevels
    /\ \E o \in MakeDirsOutcomes :
        /\ dirs' = DirsAfterMakeDirs(o)
        /\ IF o = "created"
           THEN /\ pc' = "compress_with_multiple_levels"
                /\ UNCHANGED <<raised, failedAt, exit_status>>
           ELSE /\ raised' = "OSError"
                /\ failedAt' = li
                /\ pc' = "raised"
                /\ exit_status' = 1
    /\ UNCHANGED <<entry, inputFile, argAnalysis, argColors, caller, img_array,
                   n_colors, li, results, pixels, km, out, writes, returned,
                   report, loads, fits>>

\* compress_with_analysis, after compress_with_multiple_levels has returned:
\* "if results:" guards generate_full_report, whose exceptions (it opens the
\* input again and writes four figures) are caught nowhere
AnalysisReturn ==
    /\ pc = "analysis_return"
    /\ report' = (returned.kind = "results" /\ returned.value # <<>>)
    /\ \E ok \in (IF report' THEN BOOLEAN ELSE {TRUE}) :
        IF ok
        THEN /\ pc' = "main_return"
             /\ UNCHANGED <<raised, failedAt, exit_status>>
        ELSE /\ raised' = "ReportError"
             /\ failedAt' = li
             /\ pc' = "raised"
             /\ exit_status' = 1
    /\ UNCHANGED <<entry, inputFile, argAnalysis, argColors, levels, caller, img_array,
                   n_colors, li, results, pixels, km, out, writes, dirs,
                   returned, loads, fits>>

\* main() returns: the process ends with status 0
MainReturn ==
    /\ pc = "main_return"
    /\ exit_status' = 0
    /\ pc' = "exited"
    /\ UNCHANGED <<entry, inputFile, argAnalysis, argColors, levels, caller, img_array,
                   n_colors, li, results, pixels, km, out, writes, dirs, raised,
                   returned, report, loads, fits, failedAt>>

\* ------------------------------------------------------ image_compressor.py
\* load_image: every exception of Image.open / np.array is caught and turned
\* into None.
LoadImageUncaught(f) ==
    IF f.kind # "image"
    THEN [value |-> NoneArray, exc |-> "IOError"]
    ELSE [value |-> [shape |-> f.shape, data |-> f.data], exc |-> NoError]

LoadImage(f) ==
    IF f.kind # "image"
    THEN [value |-> NoneArray, exc |-> NoError]
    ELSE [value |-> [shape |-> f.shape, data |-> f.data], exc |-> NoError]

\* compress_image_file, up to its call of compress_image_kmeans
CompressImageFile ==
    /\ pc = "compress_image_file"
    /\ loads' = loads + 1
    /\ LET r == LoadImage(inputFile)
       IN  IF r.exc # NoError
           THEN /\ Raise(r.exc)
                /\ UNCHANGED <<returned, img_array, n_colors, caller>>
           ELSE IF r.value = NoneArray
           THEN /\ returned' = ReturnedNone
                /\ pc' = ReturnTo
                /\ UNCHANGED <<img_array, n_colors, caller, raised, failedAt, exit_status, li>>
           ELSE /\ img_array' = r.value
                /\ n_colors' = argColors
                /\ caller' = "file"
                /\ pc' = "compress_image_kmeans"
                /\ UNCHANGED <<returned, raised, failedAt, exit_status, li>>
    /\ UNCHANGED <<entry, inputFile, argAnalysis, argColors, levels, results, pixels,
                   km, out, writes, dirs, report, fits>>

\* compress_with_multiple_levels, up to its for loop
CompressWithMultipleLevels ==
    /\ pc = "compress_with_multiple_levels"
    /\ loads' = loads + 1
    /\ LET r == LoadImage(inputFile)
       IN  IF r.exc # NoError
           THEN /\ raised' = r.exc
                /\ failedAt' = li
                /\ pc' = "raised"
                /\ exit_status' = IF entry = "main" THEN 1 ELSE exit_status
                /\ UNCHANGED <<returned, img_array, caller, li, results>>
           ELSE IF r.value = NoneArray
           THEN /\ returned' = ReturnedNone
                /\ pc' = ReturnTo
                /\ UNCHANGED <<img_array, caller, li, results, raised, failedAt, exit_status>>
           ELSE /\ img_array' = r.value
                /\ caller' = "levels"
                /\ results' = <<>>
                /\ li' = 1
                /\ pc' = "for_levels"
                /\ UNCHANGED <<returned, raised, failedAt, exit_status>>
    /\ UNCHANGED <<entry, inputFile, argAnalysis, argColors, levels, n_colors, pixels,
                   km, out, writes, dirs, report, fits>>

\* "for n_colors in levels:" takes the next level, or the function returns results
ForLevels ==
    /\ pc = "for_levels"
    /\ IF li > Len(levels)
       THEN /\ returned' = ReturnedResults(results)
            /\ pc' = ReturnTo
            /\ UNCHANGED n_colors
       ELSE /\ n_colors' = levels[li]
            /\ pc' = "compress_image_kmeans"
            /\ UNCHANGED returned
    /\ UNCHANGED <<entry, inputFile, argAnalysis, argColors, levels, caller, img_array,
                   li, results, pixels, km, out, writes, dirs, raised, exit_status,
                   report, loads, fits, failedAt>>

\* compress_image_kmeans lines 43-53: original_shape, pixels = reshape(-1, 3)
Flatten ==
    /\ pc = "compress_image_kmeans"
    /\ IF ReshapeOk(img_array.data)
       THEN /\ pixels' = ReshapeRows3(img_array.data)
            /\ pc' = "fit"
            /\ UNCHANGED <<raised, failedAt, exit_status, li>>
       ELSE /\ Raise("ValueError")
            /\ UNCHANGED pixels
    /\ UNCHANGED <<entry, inputFile, argAnalysis, argColors, levels, caller, img_array,
                   n_colors, results, km, out, writes, dirs, returned, report, loads,
                   fits>>

\* best_inertia is None
NoBest ==
    [centers |-> <<>>, labels |-> <<>>, inertia |-> -1]

FreshFit ==
    [round |-> 1, iter |-> 0, conv |-> "no", centers |-> <<>>, labels |-> <<>>,
     labels_old |-> <<>>, best |-> NoBest]

\* fit: "n_samples should be >= n_clusters"
FitRejectsOffByOne(n_samples, n_clusters) ==
    n_samples + 1 < n_clusters

FitRejects(n_samples, n_clusters) ==
    n_samples < n_clusters

\* KMeans(n_clusters=n_colors, ...).fit(pixels): the parameter and input checks
Fit ==
    /\ pc = "fit"
    /\ fits' = fits + 1
    /\ IF n_colors < 1
       THEN /\ Raise("InvalidParameterError")
            /\ UNCHANGED km
       ELSE IF FitRejects(Len(pixels), n_colors)
       THEN /\ Raise("ValueError")
            /\ UNCHANGED km
       ELSE /\ km' = <<FreshFit>>
            /\ pc' = "init_centroids"
            /\ UNCHANGED <<raised, failedAt, exit_status, li>>
    /\ UNCHANGED <<entry, inputFile, argAnalysis, argColors, levels, caller, img_array,
                   n_colors, results, pixels, out, writes, dirs, returned, report,
                   loads>>

\* one of the n_init runs begins: the k-means++ draw of its initial centres.
\* Which samples the generator seeded with random_state=42 draws is decided
\* inside the library; the draw is any one k-means++ can make.
InitCentroidsStep ==
    /\ pc = "init_centroids"
    /\ \E d \in PlusPlusDraws(pixels, n_colors, <<>>) :
        km' = <<[km[1] EXCEPT !.centers = InitCentroids(pixels, d),
                              !.labels = [i \in 1..Len(pixels) |-> -1],
                              !.labels_old = [i \in 1..Len(pixels) |-> -1],
                              !.iter = 0,
                              !.conv = "no"]>>
    /\ pc' = "lloyd"
    /\ UNCHANGED <<entry, inputFile, argAnalysis, argColors, levels, caller, img_array,
                   n_colors, li, results, pixels, out, writes, dirs, raised, returned,
                   exit_status, report, loads, fits, failedAt>>

\* "for i in range(max_iter)": the counter of the Lloyd loop
NextIterStuck(i) ==
    i

NextIter(i) ==
    i + 1

LoopContinues(k) ==
    k.conv = "no" /\ k.iter < MaxIter

\* the end of one pass of the Lloyd loop, given the labels and the centres it
\* computed: the test for convergence
LloydUpdate(k, labels, new) ==
        [k EXCEPT !.labels = labels,
                  !.centers = new,
                  !.iter = NextIter(k.iter),
                  !.conv = IF labels = k.labels_old THEN "strict"
                           ELSE IF ShiftWithinTol(k.centers, new) THEN "tol"
                           ELSE "no",
                  !.labels_old = IF labels = k.labels_old \/ ShiftWithinTol(k.centers, new)
                                 THEN @ ELSE labels]

\* one pass of the Lloyd loop: assign (E-step), recompute (M-step), test.
\* The pass is computed in exact arithmetic: the rounding of the library's
\* floating-point sums, and the order in which its threads add them up, are
\* not represented, so nothing about the low bits of a centroid rests on it.
LloydIter ==
    /\ pc = "lloyd"
    /\ LoopContinues(km[1])
    /\ \E labels \in {EStep(pixels, km[1].centers)} :
       \E new \in {MStep(pixels, km[1].centers, labels)} :
        km' = <<LloydUpdate(km[1], labels, new)>>
    /\ UNCHANGED <<entry, inputFile, argAnalysis, argColors, levels, pc, caller,
                   img_array, n_colors, li, results, pixels, out, writes, dirs, raised,
                   returned, exit_status, report, loads, fits, failedAt>>

\* the labels one of the n_init runs ends with: recomputed unless convergence
\* was strict
FinalLabels(k) ==
    IF k.conv = "strict" THEN k.labels ELSE EStep(pixels, k.centers)

\* the run replaces the best so far if its inertia is smaller and its
\* clustering differs
EndOfRun(k, labels, inertia) ==
    LET better == \/ k.best.inertia < 0
                  \/ (inertia < k.best.inertia /\ ~IsSameClustering(labels, k.best.labels))
    IN  [k EXCEPT !.labels = labels,
                  !.round = @ + 1,
                  !.best = IF better
                           THEN [centers |-> k.centers, labels |-> labels, inertia |-> inertia]
                           ELSE @]

\* the end of one of the n_init runs
EndRun ==
    /\ pc = "lloyd"
    /\ ~LoopContinues(km[1])
    /\ \E labels \in {FinalLabels(km[1])} :
       \E inertia \in {Inertia(pixels, km[1].centers, labels)} :
        km' = <<EndOfRun(km[1], labels, inertia)>>
    /\ pc' = IF km[1].round >= NInit THEN "reconstruct" ELSE "init_centroids"
    /\ UNCHANGED <<entry, inputFile, argAnalysis, argColors, levels, caller, img_array,
                   n_colors, li, results, pixels, out, writes, dirs, raised, returned,
                   exit_status, report, loads, fits, failedAt>>

\* compress_image_kmeans lines 59-69
CompressedImg(original_shape, k) ==
    ReshapeBack(original_shape, FlatColors(k.best.centers, k.best.labels))

\* reshape(original_shape) raises ValueError unless the sizes agree
Reconstruct ==
    /\ pc = "reconstruct"
    /\ IF 3 * Len(km[1].best.labels) # Product(img_array.shape)
       THEN /\ Raise("ValueError")
            /\ UNCHANGED <<out, returned>>
       ELSE /\ out' = <<CompressedImg(img_array.shape, km[1])>>
            /\ IF caller = Unset
               THEN /\ returned' = ReturnedImage(out'[1])
                    /\ pc' = "returned"
               ELSE /\ pc' = IF caller = "file" THEN "save_file" ELSE "save_level"
                    /\ UNCHANGED returned
            /\ UNCHANGED <<raised, failedAt, exit_status, li>>
    /\ UNCHANGED <<entry, inputFile, argAnalysis, argColors, levels, caller, img_array,
                   n_colors, results, pixels, km, writes, dirs, report, loads, fits>>

\* calculate_compression_ratio, kept as the pair <<orig_colors, comp_colors>>
\* (comp_colors = 0 stands for the ratio 1)
CalculateCompressionRatio(original_img, compressed_img) ==
    LET orig_colors == UniqueRows3(original_img.data)
        comp_colors == UniqueRows3(compressed_img.data)
    IN  IF comp_colors > 0 THEN <<orig_colors, comp_colors>> ELSE <<1, 1>>

\* save_image: os.makedirs may fail, leaving nothing behind; Image.fromarray or
\* img.save may fail after the directory was created; or the file is written.
SaveImageOutcomes ==
    {"makedirs_failed", "save_failed", "saved"}

\* the directories that exist once save_image has ended with outcome o
DirsAfterSave(o) ==
    IF o = "makedirs_failed" THEN dirs ELSE dirs \cup {"output_dir"}

\* compress_image_file lines 124-135: the ratio, save_image, return
\* compressed_img
SaveFile ==
    /\ pc = "save_file"
    /\ \E o \in SaveImageOutcomes :
        /\ dirs' = DirsAfterSave(o)
        /\ IF o = "saved"
           THEN /\ writes' = Append(writes, [path |-> <<"single", n_colors>>, image |-> out[1]])
                /\ returned' = ReturnedImage(out[1])
                /\ pc' = ReturnTo
                /\ UNCHANGED <<raised, failedAt, exit_status, li>>
           ELSE /\ Raise("OSError")
                /\ UNCHANGED <<writes, returned>>
    /\ UNCHANGED <<entry, inputFile, argAnalysis, argColors, levels, caller, img_array,
                   n_colors, results, pixels, km, out, report, loads, fits>>

PrependResult(rs, r) ==
    <<r>> \o rs

\* results.append({...})
AppendResult(rs, r) ==
    Append(rs, r)

\* compress_with_multiple_levels lines 161-175: save_image, the ratio, append
SaveLevel ==
    /\ pc = "save_level"
    /\ \E o \in SaveImageOutcomes :
        /\ dirs' = DirsAfterSave(o)
        /\ IF o = "saved"
           THEN /\ writes' = Append(writes, [path |-> <<"level", n_colors>>, image |-> out[1]])
                /\ results' = AppendResult(results,
                                 [n_colors |-> n_colors,
                                  path |-> <<"level", n_colors>>,
                                  image |-> out[1],
                                  ratio |-> CalculateCompressionRatio(img_array, out[1])])
                /\ li' = li + 1
                /\ pc' = "for_levels"
                /\ UNCHANGED <<raised, failedAt, exit_status>>
           ELSE /\ Raise("OSError")
                /\ UNCHANGED <<writes, results>>
    /\ UNCHANGED <<entry, inputFile, argAnalysis, argColors, levels, caller, img_array,
                   n_colors, pixels, km, out, returned, report, loads, fits>>

Next ==
    \/ Main
    \/ CompressWithAnalysis
    \/ AnalysisReturn
    \/ MainReturn
    \/ CompressImageFile
    \/ CompressWithMultipleLevels
    \/ ForLevels
    \/ Flatten
    \/ Fit
    \/ InitCentroidsStep
    \/ LloydIter
    \/ EndRun
    \/ Reconstruct
    \/ SaveFile
    \/ SaveLevel

Spec ==
    Init /\ [][Next]_vars

\* ------------------------------------------------------------------ claims
\* compress_image_kmeans has just returned: out[1] is its result for the
\* arguments img_array and n_colors
KMeansReturned ==
    \/ pc \in {"save_file", "save_level"}
    \/ (entry = "compress_image_kmeans" /\ pc = "returned")

\* C1: for any image and any valid k the image returned by
\* compress_image_kmeans holds at most k distinct colours (8-bit pixels of the
\* image's own geometry).
C1_AtMostKColors ==
    KMeansReturned => Cardinality(ImageColors(out[1])) <= n_colors

\* C2: the image returned by compress_image_kmeans has the shape of its input
\* (height, width, channels) and as many elements.
C2_SameGeometry ==
    KMeansReturned =>
        /\ out[1].shape = img_array.shape
        /\ Len(out[1].data) = Product(img_array.shape)
        /\ Len(out[1].data) = Len(img_array.data)

C2_Witness ==
    /\ KMeansReturned
    /\ Len(img_array.shape) = 3
    /\ img_array.shape[2] > 1
    /\ n_colors = 2

\* C3: pixel extraction yields H*W samples, sample i being the C-channel pixel
\* at row i div W, column i mod W, for every channel count C.
C3_PixelExtraction ==
    pc = "fit" =>
        /\ Len(pixels) = NumPixels(img_array)
        /\ \A i \in 1..Len(pixels) : pixels[i] = PixelAt(img_array, i - 1)

\* The clustering step rejected n_colors because it exceeds the sample count.
TooManyColors ==
    /\ pc = "raised"
    /\ raised = "ValueError"
    /\ pixels # <<>>
    /\ Len(pixels) < n_colors

\* C4 as stated: when a requested k exceeds the number of samples, clustering
\* fails and the run has written no output file.
C4_NoFileWritten ==
    TooManyColors => writes = <<>>

\* C4 amended: no file is ever written for a k above the sample count; when
\* clustering rejects such a k nothing is returned, the single-image pipeline
\* has written nothing and the multi-level driver has written only the files
\* of the levels before the failing one; a run that asked for such a k ends
\* with an exception.
C4_NoFileForFailedLevel ==
    /\ \A i \in 1..Len(writes) : writes[i].path[2] <= Len(pixels)
    /\ TooManyColors =>
        /\ returned.kind = "unset"
        /\ caller = "file" => writes = <<>>
        /\ caller = "levels" =>
            /\ Len(writes) = li - 1
            /\ \A i \in 1..Len(writes) : writes[i].path = <<"level", levels[i]>>
    /\ (pc \in Terminal /\ pixels # <<>>
            /\ \/ (caller = "file" /\ argColors > Len(pixels))
               \/ (caller = "levels" /\ \E i \in 1..Len(levels) : levels[i] > Len(pixels)))
        => raised # NoError

C4_Witness ==
    /\ TooManyColors
    /\ caller = "levels"
    /\ Len(writes) >= 1

\* C5: a decode failure is not fatal: load_image yields None, the pipeline
\* function returns None without raising, nothing is clustered or saved and no
\* report is generated.
C5_DecodeFailure ==
    (entry # "compress_image_kmeans" /\ inputFile.kind # "image" /\ loads > 0) =>
        /\ img_array = NoneArray
        /\ returned.kind = "None"
        /\ raised = NoError
        /\ fits = 0
        /\ writes = <<>>
        /\ ~report
        /\ pc \in {"analysis_return", "main_return", "returned", "exited"}
        /\ pc = "exited" => exit_status = 0

C5_Witness ==
    /\ entry = "main"
    /\ argAnalysis
    /\ inputFile.kind = "corrupt"
    /\ pc = "exited"
    /\ returned.kind = "None"

\* C6: main on an input path that does not exist exits with status 1 before
\* anything is loaded, clustered, created or written, in both modes.
C6_MissingInput ==
    (entry = "main" /\ inputFile.kind = "missing") =>
        /\ loads = 0
        /\ fits = 0
        /\ dirs = {}
        /\ writes = <<>>
        /\ pc \in {"main", "exited"}
        /\ pc = "exited" => exit_status = 1

C6_Witness ==
    /\ entry = "main"
    /\ inputFile.kind = "missing"
    /\ argAnalysis
    /\ pc = "exited"

\* C7: compress_with_multiple_levels handles the levels one after another in
\* the order given, and the results it returns hold one entry per level, entry
\* i recording levels[i].
C7_ResultsInOrder ==
    /\ caller = "levels" =>
        /\ Len(writes) = Len(results)
        /\ \A i \in 1..Len(results) :
            /\ results[i].n_colors = levels[i]
            /\ writes[i].path = <<"level", levels[i]>>
        /\ fits \in {Len(results), Len(results) + 1}
    /\ returned.kind = "results" =>
        /\ Len(returned.value) = Len(levels)
        /\ \A i \in 1..Len(levels) : returned.value[i].n_colors = levels[i]

C7_Witness ==
    /\ returned.kind = "results"
    /\ Len(levels) = 2
    /\ levels[1] > levels[2]

\* C8: the multi-level driver fails fast: once clustering or saving fails at a
\* level the exception leaves the driver, no later level is clustered or
\* saved, and nothing is returned, the results of earlier levels included;
\* results are returned only when every level was clustered and saved.  (An
\* exception of the report comes after the driver has returned and is no
\* failure of a level.)
C8_FailFast ==
    /\ (caller = "levels" /\ raised \notin {NoError, "ReportError"}) =>
        /\ pc = "raised"
        /\ returned.kind = "unset"
        /\ li = failedAt
        /\ fits <= failedAt
        /\ Len(writes) = failedAt - 1
        /\ ~report
        /\ entry = "main" => exit_status = 1
    /\ (caller = "levels" /\ returned.kind = "results") =>
        /\ raised \in {NoError, "ReportError"}
        /\ Len(writes) = Len(levels)
        /\ fits = Len(levels)
        /\ \A i \in 1..Len(levels) : levels[i] <= Len(pixels)

C8_Witness ==
    /\ caller = "levels"
    /\ raised = "OSError"
    /\ failedAt = 2
    /\ Len(results) = 1
    /\ returned.kind = "unset"

\* Steps one fit can still take: n_init runs of at most max_iter passes each.
RunCost ==
    MaxIter + 3

FitCost ==
    (NInit + 1) * RunCost

LevelCost ==
    FitCost + 5

PassesLeft(k) ==
    IF k.conv = "no" /\ k.iter <= MaxIter THEN MaxIter - k.iter ELSE 0

\* what is left after the current call of compress_image_kmeans
AfterKMeans ==
    IF caller = "levels" THEN (Len(levels) - li) * LevelCost + 3 ELSE 3

\* A bound on the number of steps the program can still take.
StepsLeft ==
    CASE pc \in Terminal -> 0
      [] pc = "main_return" -> 1
      [] pc = "analysis_return" -> 2
      [] pc = "main" -> (Len(AnalysisLevels) + 1) * LevelCost + 6
      [] pc = "compress_with_analysis" -> (Len(AnalysisLevels) + 1) * LevelCost + 5
      [] pc = "compress_with_multiple_levels" -> (Len(levels) + 1) * LevelCost + 4
      [] pc = "for_levels" -> (Len(levels) - li + 1) * LevelCost + 3
      [] pc = "compress_image_file" -> LevelCost + 3
      [] pc = "compress_image_kmeans" -> AfterKMeans + FitCost + 4
      [] pc = "fit" -> AfterKMeans + FitCost + 3
      [] pc = "init_centroids" -> AfterKMeans + 2 + (NInit - km[1].round + 1) * RunCost
      [] pc = "lloyd" -> AfterKMeans + 2 + (NInit - km[1].round) * RunCost + 1 + PassesLeft(km[1])
      [] pc = "reconstruct" -> AfterKMeans + 2
      [] pc \in {"save_file", "save_level"} -> AfterKMeans + 1

\* A step can be taken: in the Lloyd loop either a run has a pass to make,
\* which is all LloydIter asks for, or the runs are over and EndRun is enabled.
CanStep ==
    IF pc = "lloyd"
    THEN LoopContinues(km[1]) \/ ENABLED EndRun
    ELSE ENABLED Next

\* C10: the Lloyd loop never passes max_iter iterations, and every run, a
\* multi-level run included, ends: every step lowers a bound on the steps
\* left, a step can be taken until the run has returned, raised or exited, and
\* the bound is 0 only then.
C10_Terminates ==
    /\ [](\A c \in DOMAIN km : km[c].iter <= MaxIter)
    /\ [](StepsLeft >= 0 /\ (StepsLeft = 0 <=> pc \in Terminal))
    /\ [](pc \notin Terminal => CanStep)
    /\ [][StepsLeft' < StepsLeft]_vars

C10_Witness ==
    /\ pc = "lloyd"
    /\ km[1].iter = MaxIter
    /\ km[1].conv = "no"

====
